---------------------------- MODULE Spec2Model ----------------------------
(***************************************************************************)
(* A model of mailjet/__main__.py: the GSM-7 classifier (gsm_encode), the  *)
(* segment counter (count_messages), the message policy (clean_message),   *)
(* the spreadsheet column finder (find_recipient_data, get_recipients),    *)
(* the recipient normaliser (clean_phone_numbers), the delivery loop       *)
(* (send_sms) and the orchestrator (run).                                  *)
(*                                                                         *)
(* Python values are modelled as follows.  A character is its Unicode code *)
(* point.  A message is a record [type |-> "str", chars |-> <<...>>].  A   *)
(* spreadsheet cell or raw recipient is a record with a "type" field;      *)
(* None is [type |-> "NoneType"].  An Optional[int] is a sequence of       *)
(* length at most one: <<>> is None and <<n>> is the integer n.            *)
(***************************************************************************)
EXTENDS Integers, Sequences, FiniteSets, TLC

VARIABLES
    \* ---- run(): one invocation of the orchestrator
    pc,               \* position in run()
    message,          \* the `message` argument
    recipients,       \* the local `recipients`: None, a list, or a set
    xlsx_file,        \* the `xlsx_file` argument
    dry_run,          \* the `dry_run` argument
    message_clean,    \* the local `message_clean`
    log,              \* what has been printed so far, in order
    posts,            \* the calls made to requests.post, in order
    raised,           \* the exception that propagated out of run(), or "none"
    phone_list,       \* clean_phone_numbers: its parameter, then stripped
    error_found,      \* clean_phone_numbers: the flag
    cleaned_numbers,  \* clean_phone_numbers: the set being built
    examined,         \* clean_phone_numbers: entries the loop has handled
    to_send,          \* send_sms: recipients the loop has not reached yet
    \* ---- count_messages(): one call
    num_characters, mode, counted, segments,
    \* ---- gsm_encode(): one call, one loop iteration per step
    plaintext, pos, enc, encoded,
    \* ---- find_recipient_data(): one call
    workbook, searched, found

runVars == <<pc, message, recipients, xlsx_file, dry_run, message_clean, log,
             posts, raised, phone_list, error_found, cleaned_numbers,
             examined, to_send>>
countVars == <<num_characters, mode, counted, segments>>
encodeVars == <<plaintext, pos, enc, encoded>>
findVars == <<workbook, searched, found>>
vars == <<runVars, countVars, encodeVars, findVars>>

---------------------------------------------------------------------------
(* Bounds of the model. *)

\* Longest message of the orchestrator's runs; above the largest threshold.
MaxMessageLen == 766
\* Largest character count handed to count_messages.
MaxCount == 770
\* Longest plaintext handed to gsm_encode over the sample characters.
MaxPlainLen == 3
\* Most raw recipients given on the command line.
MaxRecipients == 2
\* Most worksheets of a workbook, and most columns of a worksheet.
MaxSheets == 2
MaxCols == 2

---------------------------------------------------------------------------
(* Python's None, and Optional[int]. *)

PyNone == [type |-> "NoneType"]
None == <<>>
Some(n) == <<n>>

---------------------------------------------------------------------------
(* The tables. *)

SMS_SIZES == << <<160, 70>>, <<306, 134>>, <<459, 201>>, <<612, 268>>,
                <<765, 335>> >>

\* The code points of GSM7_CHARSET, in order (Python index = position - 1).
GSM7_CHARSET ==
    << 64, 163, 36, 165, 232, 233, 249, 236, 242, 199, 10, 216, 248, 13,
       197, 229, 916, 95, 934, 915, 923, 937, 928, 936, 931, 920, 926, 27,
       198, 230, 223, 201, 32, 33, 34, 35, 164, 37, 38, 39, 40, 41, 42, 43,
       44, 45, 46, 47, 48, 49, 50, 51, 52, 53, 54, 55, 56, 57, 58, 59, 60,
       61, 62, 63,
       161, 65, 66, 67, 68, 69, 70, 71, 72, 73, 74, 75, 76, 77, 78, 79, 80,
       81, 82, 83, 84, 85, 86, 87, 88, 89, 90, 196, 214, 209, 220, 167, 191,
       97, 98, 99, 100, 101, 102, 103, 104, 105, 106, 107, 108, 109, 110,
       111, 112, 113, 114, 115, 116, 117, 118, 119, 120, 121, 122, 228, 246,
       241, 252, 224 >>

\* The code point of "`", which fills the undefined positions of EXT_CHARSET.
Backtick == 96

\* The code points of EXT_CHARSET, in order: "`" everywhere but at the
\* positions of ^ { } \ [ ~ ] | and the euro sign.
EXT_CHARSET ==
    [i \in 1..128 |->
        CASE i = 21 -> 94
          [] i = 41 -> 123
          [] i = 42 -> 125
          [] i = 48 -> 92
          [] i = 61 -> 91
          [] i = 62 -> 126
          [] i = 63 -> 93
          [] i = 65 -> 124
          [] i = 102 -> 8364
          [] OTHER -> Backtick]

\* str.find for one character: the lowest 0-based index, or -1.
Find(table, c) ==
    IF \E i \in 1..Len(table) : table[i] = c
    THEN (CHOOSE i \in 1..Len(table) :
             table[i] = c /\ \A j \in 1..(i - 1) : table[j] # c) - 1
    ELSE -1

---------------------------------------------------------------------------
(* count_messages *)

\* A slip in the comparison: a count equal to a threshold no longer fits.
count_messages_strict(n, m) ==
    LET fits(i) == IF m = "gsm7" THEN SMS_SIZES[i][1] > n
                                 ELSE SMS_SIZES[i][2] > n
    IN  IF \E i \in 1..Len(SMS_SIZES) : fits(i)
        THEN Some(CHOOSE i \in 1..Len(SMS_SIZES) :
                     fits(i) /\ \A j \in 1..(i - 1) : ~fits(j))
        ELSE None

\* for idx, (gsm7, utf16) in enumerate(SMS_SIZES): return idx + 1 at the
\* first entry that is >= num_characters; None when there is none.
count_messages(n, m) ==
    LET fits(i) == IF m = "gsm7" THEN SMS_SIZES[i][1] >= n
                                 ELSE SMS_SIZES[i][2] >= n
    IN  IF \E i \in 1..Len(SMS_SIZES) : fits(i)
        THEN Some(CHOOSE i \in 1..Len(SMS_SIZES) :
                     fits(i) /\ \A j \in 1..(i - 1) : ~fits(j))
        ELSE None

---------------------------------------------------------------------------
(* gsm_encode *)

\* The state of gsm_encode's loop.  ext_lookups records the characters for
\* which EXT_CHARSET.find was called.
EncStart == [chars_omitted |-> <<>>, res |-> <<>>, ext_lookups |-> <<>>]

\* A slip in the extension branch: the escape code is left out.
GsmEncodeCharNoEscape(st, c) ==
    LET idx == Find(GSM7_CHARSET, c)
        ext == Find(EXT_CHARSET, c)
    IN  IF idx # -1
        THEN [st EXCEPT !.res = Append(@, idx)]
        ELSE [chars_omitted |-> Append(st.chars_omitted, c),
              res |-> IF ext # -1 THEN Append(st.res, ext) ELSE st.res,
              ext_lookups |-> Append(st.ext_lookups, c)]

\* One iteration of `for c in plaintext`.
GsmEncodeChar(st, c) ==
    LET idx == Find(GSM7_CHARSET, c)
        ext == Find(EXT_CHARSET, c)
    IN  IF idx # -1
        THEN [st EXCEPT !.res = Append(@, idx)]
        ELSE [chars_omitted |-> Append(st.chars_omitted, c),
              res |-> IF ext # -1 THEN st.res \o <<27, ext>> ELSE st.res,
              ext_lookups |-> Append(st.ext_lookups, c)]

\* The UTF-8 bytes of one code point below 65536.
Utf8Char(c) ==
    IF c < 128 THEN <<c>>
    ELSE IF c < 2048 THEN <<192 + (c \div 64), 128 + (c % 64)>>
    ELSE <<224 + (c \div 4096), 128 + ((c \div 64) % 64), 128 + (c % 64)>>

\* str.encode('utf-8'): the bytes of s[lo..hi], character by character,
\* left to right (the range is halved to keep the evaluation shallow).
RECURSIVE Utf8Range(_, _, _)
Utf8Range(s, lo, hi) ==
    IF lo > hi THEN <<>>
    ELSE IF lo = hi THEN Utf8Char(s[lo])
    ELSE LET mid == (lo + hi) \div 2
         IN  Utf8Range(s, lo, mid) \o Utf8Range(s, mid + 1, hi)

Utf8(s) == Utf8Range(s, 1, Len(s))

\* binascii.b2a_hex: two lowercase hexadecimal digits (as ASCII) per byte.
HexDigit(d) == IF d < 10 THEN 48 + d ELSE 87 + d
B2aHex(bytes) ==
    [i \in 1..(2 * Len(bytes)) |->
        IF i % 2 = 1 THEN HexDigit(bytes[(i + 1) \div 2] \div 16)
                     ELSE HexDigit(bytes[i \div 2] % 16)]

\* The loop state st after the appends recorded in more.
EncExtend(st, more) ==
    [chars_omitted |-> st.chars_omitted \o more.chars_omitted,
     res |-> st.res \o more.res,
     ext_lookups |-> st.ext_lookups \o more.ext_lookups]

\* What the loop of gsm_encode appends over s[lo..hi].  An iteration reads
\* the loop state only to append to it, so the appends of a range are those
\* of its left half followed by those of its right half (the range is
\* halved to keep the evaluation shallow).
RECURSIVE GsmEncodeLoop(_, _, _)
GsmEncodeLoop(s, lo, hi) ==
    IF lo > hi THEN EncStart
    ELSE IF lo = hi THEN GsmEncodeChar(EncStart, s[lo])
    ELSE LET mid == (lo + hi) \div 2
         IN  EncExtend(GsmEncodeLoop(s, lo, mid),
                       GsmEncodeLoop(s, mid + 1, hi))

\* The return statement of gsm_encode: (chars_omitted, hex of the UTF-8
\* bytes of res).
GsmEncodeResult(st) == <<st.chars_omitted, B2aHex(Utf8(st.res))>>

\* gsm_encode(plaintext)
gsm_encode(s) == GsmEncodeResult(GsmEncodeLoop(s, 1, Len(s)))

---------------------------------------------------------------------------
(* clean_message *)

\* f'{savings * 100.0:0.0f}' for savings = (utf16 - gsm7) / utf16.
SavingsPercent(num_utf16, num_gsm7) ==
    (200 * (num_utf16 - num_gsm7) + num_utf16) \div (2 * num_utf16)

\* The closing report of clean_message for the chosen mode.
SegmentReport(m, num) ==
    IF num # None /\ num[1] > 1
    THEN <<[msg |-> "CONCATENATED", mode |-> m, count |-> num[1]]>>
    ELSE <<[msg |-> "SINGLE", mode |-> m]>>

\* clean_message(message, dry_run) for a str message: the returned flag and
\* what it prints.
clean_message(chars, dry) ==
    LET characters_omitted == gsm_encode(chars)[1]
        num_gsm7_msgs == count_messages(Len(chars), "gsm7")
        num_utf16_msgs == count_messages(Len(chars), "utf16")
    IN  IF characters_omitted # <<>>
        THEN IF num_utf16_msgs = None
             THEN [ok |-> FALSE,
                   out |-> <<[msg |-> "ERROR_TOO_LONG_UTF16"]>> \o
                           (IF dry /\ num_gsm7_msgs # None
                            THEN <<[msg |-> "HOWEVER_GSM7"]>> ELSE <<>>)]
             ELSE [ok |-> TRUE,
                   out |-> (IF dry
                            THEN <<[msg |-> "SUGGESTION",
                                    percent |-> SavingsPercent(
                                        num_utf16_msgs[1], num_gsm7_msgs[1])]>>
                            ELSE <<>>) \o
                           SegmentReport("utf16", num_utf16_msgs)]
        ELSE [ok |-> TRUE, out |-> SegmentReport("gsm7", num_gsm7_msgs)]

---------------------------------------------------------------------------
(* Spreadsheet cells, raw recipients, and the phonenumbers library. *)

\* A str cell or command-line argument; lro: it starts with U+202D.
Str(t) == [type |-> "str", lro |-> FALSE, text |-> t]
LroStr(t) == [type |-> "str", lro |-> TRUE, text |-> t]

\* p.replace(LRO, ''), LRO being U+202D
StripLro(p) == [p EXCEPT !.lro = FALSE]

\* phonenumbers.parse(num) raises NumberParseException: no country code.
ParseRaises(p) == p.text \in {"12345", "Ann", "Bob", ""}
\* phonenumbers.is_valid_number(parsed)
IsValidNumber(p) == p.text # "+1212555"
\* phonenumbers.format_number(parsed, Formats.E164)
FormatE164(p) ==
    CASE p.text = "+1 212-555-1212" -> "+12125551212"
      [] OTHER -> p.text

\* str.lower on the header texts of the sample workbooks.
Lower(t) ==
    CASE t = "SMS" -> "sms"
      [] t = "Mobile" -> "mobile"
      [] t = "Cell" -> "cell"
      [] t = "TELEPHONE" -> "telephone"
      [] t = "Name" -> "name"
      [] t = "Notes" -> "notes"
      [] OTHER -> t

\* The header names find_recipient_data looks for.
RecipientHeaders == {"sms", "cell", "mobile", "telephone"}

\* A worksheet is its rows, row 1 first; a workbook is its worksheets.
max_column(sheet) == Len(sheet[1])

---------------------------------------------------------------------------
(* find_recipient_data and get_recipients *)

\* for sheet in workbook.worksheets: for c in range(1, sheet.max_column),
\* from worksheet s and column c on.
RECURSIVE FindFrom(_, _, _)
FindFrom(book, s, c) ==
    IF s > Len(book) THEN [result |-> "RecipientsNotFoundException"]
    ELSE IF c >= max_column(book[s]) THEN FindFrom(book, s + 1, 1)
    ELSE LET val == book[s][1][c]
         IN  IF val.type # "str" THEN [result |-> "AttributeError"]
             ELSE IF Lower(val.text) \in RecipientHeaders
             THEN [result |-> "return", sheet |-> s, column |-> c]
             ELSE FindFrom(book, s, c + 1)

find_recipient_data(book) == FindFrom(book, 1, 1)

\* get_recipients(file_path) for a truthy path: either an exception leaves
\* it (load_workbook is outside its try), or it returns a list or None
\* after printing.
get_recipients(file) ==
    IF ~file.exists
    THEN [raises |-> TRUE, value |-> PyNone, out |-> <<>>]
    ELSE LET f == find_recipient_data(file.book)
         IN  CASE f.result = "return" ->
                    LET sheet == file.book[f.sheet]
                    IN  [raises |-> FALSE,
                         value |-> [type |-> "list",
                                    items |-> [r \in 1..(Len(sheet) - 1) |->
                                                 sheet[r + 1][f.column]]],
                         out |-> <<>>]
               [] f.result = "RecipientsNotFoundException" ->
                    [raises |-> FALSE, value |-> PyNone,
                     out |-> <<[msg |-> "XLSX_COLUMN_REQUIRED"]>>]
               [] OTHER ->
                    [raises |-> FALSE, value |-> PyNone,
                     out |-> <<[msg |-> "XLSX_UNANTICIPATED_ERROR"]>>]

\* Python truthiness of the local `recipients`.
Truthy(r) ==
    CASE r.type = "NoneType" -> FALSE
      [] r.type = "list" -> r.items # <<>>
      [] OTHER -> r.items # {}

---------------------------------------------------------------------------
(* The inputs of the orchestrator's runs. *)

\* One primary character (A), one extension character (the euro sign) and
\* one character of neither table (U+4E2D).
LetterA == GSM7_CHARSET[66]
Euro == EXT_CHARSET[102]
Han == 20000 + 13

\* Message lengths: around the thresholds of SMS_SIZES that decide
\* sendability and the first saving, and the longest message.
RunLengths == {0, 1, 70, 71, 160, 161, 335, 336, 765, MaxMessageLen}

Repeat(c, n) == [i \in 1..n |-> c]

\* The message is absent (no -m given), or n characters: all A, or A's
\* ending in one extension character or one character of neither table.
RunMessages ==
    {PyNone}
    \cup {[type |-> "str", chars |-> Repeat(LetterA, n)] : n \in RunLengths}
    \cup {[type |-> "str", chars |-> Append(Repeat(LetterA, n - 1), c)] :
             n \in RunLengths \ {0}, c \in {Euro, Han}}

\* Raw recipients of the command line: two spellings of one valid number
\* (one behind an LRO mark), another valid number, a text with no country
\* code, and a number that parses but is not valid.
RawSamples ==
    {Str("+12125551212"), LroStr("+1 212-555-1212"), Str("+442079460958"),
     Str("12345"), Str("+1212555")}

SeqsUpTo(S, n) == UNION {[1..k -> S] : k \in 0..n}

\* The sample workbooks: the recipient column in the middle; a cell with no
\* value in the recipient column; the header in the last column; a header
\* cell with no value; no data rows; malformed entries; a second worksheet.
SampleWorkbooks ==
    { << << <<Str("Name"), Str("SMS"), Str("Notes")>>,
            <<Str("Ann"), Str("+12125551212"), Str("")>>,
            <<Str("Bob"), LroStr("+442079460958"), Str("")>> >> >>,
      << << <<Str("sms"), Str("Name")>>,
            <<Str("+12125551212"), Str("Ann")>>,
            <<PyNone, Str("Bob")>> >> >>,
      << << <<Str("Name"), Str("SMS")>>,
            <<Str("Ann"), Str("+12125551212")>> >> >>,
      << << <<PyNone, Str("SMS"), Str("Notes")>>,
            <<Str("Ann"), Str("+12125551212"), Str("")>> >> >>,
      << << <<Str("Cell"), Str("Name")>> >> >>,
      << << <<Str("Mobile"), Str("Name")>>,
            <<Str("12345"), Str("Ann")>>,
            <<PyNone, Str("Bob")>> >> >>,
      << << <<Str("TELEPHONE"), Str("Name")>>,
            <<Str("+1212555"), Str("Ann")>>,
            <<Str("+12125551212"), Str("Bob")>> >> >>,
      << << <<Str("Name"), Str("Notes")>>,
            <<Str("Ann"), Str("")>> >>,
         << <<Str("cell"), Str("Name")>>,
            <<Str("+442079460958"), Str("Bob")>> >> >> }

\* The xlsx_file argument: a path to one of the workbooks, or to no file.
RunFiles ==
    {[type |-> "str", exists |-> FALSE, book |-> <<>>]}
    \cup {[type |-> "str", exists |-> TRUE, book |-> b] : b \in SampleWorkbooks}

\* Either `recipients` or `xlsx_file` is passed, never both.
RunSources ==
    {[recipients |-> PyNone, xlsx_file |-> PyNone]}
    \cup {[recipients |-> [type |-> "list", items |-> l], xlsx_file |-> PyNone] :
             l \in SeqsUpTo(RawSamples, MaxRecipients)}
    \cup {[recipients |-> PyNone, xlsx_file |-> f] : f \in RunFiles}

---------------------------------------------------------------------------
(* Initial states. *)

RunIdle ==
    /\ pc = "idle" /\ message = PyNone /\ recipients = PyNone
    /\ xlsx_file = PyNone /\ dry_run = TRUE /\ message_clean = FALSE
    /\ log = <<>> /\ posts = <<>> /\ raised = "none" /\ phone_list = <<>>
    /\ error_found = FALSE /\ cleaned_numbers = {} /\ examined = 0
    /\ to_send = {}

CountIdle ==
    num_characters = 0 /\ mode = "gsm7" /\ counted = FALSE /\ segments = None

EncodeIdle ==
    plaintext = <<>> /\ pos = 1 /\ enc = EncStart /\ encoded = <<>>

FindIdle ==
    workbook = <<>> /\ searched = FALSE /\ found = [result |-> "pending"]

\* run() is entered with its arguments bound.
Init ==
    /\ pc = "clean_message"
    /\ message \in RunMessages
    /\ dry_run \in BOOLEAN
    /\ \E src \in RunSources :
          recipients = src.recipients /\ xlsx_file = src.xlsx_file
    /\ message_clean = FALSE /\ log = <<>> /\ posts = <<>>
    /\ raised = "none" /\ phone_list = <<>> /\ error_found = FALSE
    /\ cleaned_numbers = {} /\ examined = 0 /\ to_send = {}
    /\ CountIdle /\ EncodeIdle /\ FindIdle

---------------------------------------------------------------------------
(* run *)

Say(entries) == log' = log \o entries

\* Lines 325-331: the sender notice, then message_clean =
\* clean_message(message, dry_run).  gsm_encode iterates the message: a
\* message of None raises TypeError, which nothing catches.
RunCleanMessage ==
    /\ pc = "clean_message"
    /\ IF message.type = "NoneType"
       THEN /\ raised' = "TypeError"
            /\ pc' = "raised"
            /\ Say(<<[msg |-> "USING_SENDER"]>>)
            /\ UNCHANGED message_clean
       ELSE LET r == clean_message(message.chars, dry_run)
            IN  /\ message_clean' = r.ok
                /\ Say(<<[msg |-> "USING_SENDER"]>> \o r.out)
                /\ pc' = IF xlsx_file.type = "str" THEN "get_recipients"
                                                   ELSE "check_recipients"
                /\ UNCHANGED raised
    /\ UNCHANGED <<message, recipients, xlsx_file, dry_run, posts, phone_list,
                   error_found, cleaned_numbers, examined, to_send>>
    /\ UNCHANGED <<countVars, encodeVars, findVars>>

\* Lines 334-343: recipients = get_recipients(file_path=xlsx_file); an
\* exception is reported and run returns; no recipients is reported.
RunGetRecipients ==
    /\ pc = "get_recipients"
    /\ LET r == get_recipients(xlsx_file)
       IN  IF r.raises
           THEN /\ Say(<<[msg |-> "XLSX_UNEXPECTED_ERRORS"]>>)
                /\ pc' = "done"
                /\ UNCHANGED recipients
           ELSE /\ recipients' = r.value
                /\ Say(r.out \o (IF ~Truthy(r.value)
                                 THEN <<[msg |-> "NO_RECIPIENTS_IN_XLSX"]>>
                                 ELSE <<>>))
                /\ pc' = "check_recipients"
    /\ UNCHANGED <<message, xlsx_file, dry_run, message_clean, posts, raised,
                   phone_list, error_found, cleaned_numbers, examined,
                   to_send>>
    /\ UNCHANGED <<countVars, encodeVars, findVars>>

\* Lines 345-347: `if recipients:` and the call of clean_phone_numbers,
\* which binds its parameter phone_list.
RunCheckRecipients ==
    /\ pc = "check_recipients"
    /\ IF Truthy(recipients)
       THEN phone_list' = recipients.items /\ pc' = "strip"
       ELSE pc' = "dispatch" /\ UNCHANGED phone_list
    /\ UNCHANGED <<message, recipients, xlsx_file, dry_run, message_clean,
                   log, posts, raised, error_found, cleaned_numbers,
                   examined, to_send>>
    /\ UNCHANGED <<countVars, encodeVars, findVars>>

---------------------------------------------------------------------------
(* clean_phone_numbers *)

\* Lines 195-199: the flag, the set, and the list comprehension that calls
\* p.replace on every entry.  An entry that is not a str has no replace:
\* AttributeError, which neither clean_phone_numbers nor run catches.
CleanStripLro ==
    /\ pc = "strip"
    /\ IF \E i \in 1..Len(phone_list) : phone_list[i].type # "str"
       THEN /\ raised' = "AttributeError"
            /\ pc' = "raised"
            /\ UNCHANGED <<phone_list, error_found, cleaned_numbers, examined>>
       ELSE /\ phone_list' = [i \in 1..Len(phone_list) |->
                                 StripLro(phone_list[i])]
            /\ error_found' = FALSE
            /\ cleaned_numbers' = {}
            /\ examined' = 0
            /\ pc' = "parse"
            /\ UNCHANGED raised
    /\ UNCHANGED <<message, recipients, xlsx_file, dry_run, message_clean,
                   log, posts, to_send>>
    /\ UNCHANGED <<countVars, encodeVars, findVars>>

\* Lines 201-219: one iteration of `for num in phone_list`.
CleanParseNumber ==
    /\ pc = "parse"
    /\ examined < Len(phone_list)
    /\ LET num == phone_list[examined + 1]
       IN  IF ParseRaises(num)
           THEN /\ Say(<<[msg |-> "PARSE_ERROR", num |-> num.text]>>)
                /\ error_found' = TRUE
                /\ UNCHANGED cleaned_numbers
           ELSE IF IsValidNumber(num)
           THEN /\ cleaned_numbers' = cleaned_numbers \cup {FormatE164(num)}
                /\ UNCHANGED <<log, error_found>>
           ELSE /\ Say(<<[msg |-> "NOT_VALID", num |-> num.text]>>)
                /\ error_found' = TRUE
                /\ UNCHANGED cleaned_numbers
    /\ examined' = examined + 1
    /\ UNCHANGED <<pc, message, recipients, xlsx_file, dry_run, message_clean,
                   posts, raised, phone_list, to_send>>
    /\ UNCHANGED <<countVars, encodeVars, findVars>>

\* Lines 221-224 and 347-352: clean_phone_numbers raises
\* UnableToCleanException or returns the set; run catches the exception,
\* reports it and sets recipients to None.
CleanReturn ==
    /\ pc = "parse"
    /\ examined = Len(phone_list)
    /\ IF error_found
       THEN /\ Say(<<[msg |-> "RECIPIENTS_NOT_PARSABLE"]>>)
            /\ recipients' = PyNone
       ELSE /\ recipients' = [type |-> "set", items |-> cleaned_numbers]
            /\ UNCHANGED log
    /\ pc' = "dispatch"
    /\ UNCHANGED <<message, xlsx_file, dry_run, message_clean, posts, raised,
                   phone_list, error_found, cleaned_numbers, examined,
                   to_send>>
    /\ UNCHANGED <<countVars, encodeVars, findVars>>

---------------------------------------------------------------------------
(* run's last statement, and send_sms *)

\* Lines 354-359: send_sms is called, or there is nothing to do.
RunDispatch ==
    /\ pc = "dispatch"
    /\ IF message_clean /\ Truthy(recipients)
       THEN to_send' = recipients.items /\ pc' = "send" /\ UNCHANGED log
       ELSE /\ Say(<<[msg |-> "NOTHING_TO_DO"]>>)
            /\ pc' = "done"
            /\ UNCHANGED to_send
    /\ UNCHANGED <<message, recipients, xlsx_file, dry_run, message_clean,
                   posts, raised, phone_list, error_found, cleaned_numbers,
                   examined>>
    /\ UNCHANGED <<countVars, encodeVars, findVars>>

\* Lines 95-98: one iteration of the loop when dry_run is set.  The
\* iteration order of the set is not fixed.
SendDryRun ==
    /\ pc = "send"
    /\ dry_run
    /\ \E r \in to_send :
          /\ Say(<<[msg |-> "DRY_RUN", to |-> r]>>)
          /\ to_send' = to_send \ {r}
    /\ UNCHANGED <<pc, message, recipients, xlsx_file, dry_run, message_clean,
                   posts, raised, phone_list, error_found, cleaned_numbers,
                   examined>>
    /\ UNCHANGED <<countVars, encodeVars, findVars>>

\* The status codes the gateway answers with: success and a failure.
StatusCodes == {200, 500}

\* A slip: the dry_run flag is not consulted before posting.
SendPostIgnoringDryRun ==
    /\ pc = "send"
    /\ \E r \in to_send, status \in StatusCodes :
          /\ posts' = Append(posts, r)
          /\ IF status # 200
             THEN Say(<<[msg |-> "NOT_SENT", to |-> r, status |-> status]>>)
             ELSE UNCHANGED log
          /\ to_send' = to_send \ {r}
    /\ UNCHANGED <<pc, message, recipients, xlsx_file, dry_run, message_clean,
                   raised, phone_list, error_found, cleaned_numbers, examined>>
    /\ UNCHANGED <<countVars, encodeVars, findVars>>

\* Lines 99-104: one iteration of the loop in live mode when requests.post
\* returns a response; a status other than 200 is reported.
SendPost ==
    /\ pc = "send"
    /\ ~dry_run
    /\ \E r \in to_send, status \in StatusCodes :
          /\ posts' = Append(posts, r)
          /\ IF status # 200
             THEN Say(<<[msg |-> "NOT_SENT", to |-> r, status |-> status]>>)
             ELSE UNCHANGED log
          /\ to_send' = to_send \ {r}
    /\ UNCHANGED <<pc, message, recipients, xlsx_file, dry_run, message_clean,
                   raised, phone_list, error_found, cleaned_numbers, examined>>
    /\ UNCHANGED <<countVars, encodeVars, findVars>>

\* Lines 100-101: requests.post raises (the network call fails).  No try
\* surrounds it in send_sms or in run: the exception leaves run.
SendPostRaises ==
    /\ pc = "send"
    /\ ~dry_run
    /\ \E r \in to_send :
          /\ posts' = Append(posts, r)
          /\ to_send' = to_send \ {r}
    /\ raised' = "ConnectionError"
    /\ pc' = "raised"
    /\ UNCHANGED <<message, recipients, xlsx_file, dry_run, message_clean,
                   log, phone_list, error_found, cleaned_numbers, examined>>
    /\ UNCHANGED <<countVars, encodeVars, findVars>>

\* The loop of send_sms is exhausted: send_sms and run return.
SendReturn ==
    /\ pc = "send"
    /\ to_send = {}
    /\ pc' = "done"
    /\ UNCHANGED <<message, recipients, xlsx_file, dry_run, message_clean,
                   log, posts, raised, phone_list, error_found,
                   cleaned_numbers, examined, to_send>>
    /\ UNCHANGED <<countVars, encodeVars, findVars>>

Next ==
    \/ RunCleanMessage
    \/ RunGetRecipients
    \/ RunCheckRecipients
    \/ CleanStripLro
    \/ CleanParseNumber
    \/ CleanReturn
    \/ RunDispatch
    \/ SendDryRun
    \/ SendPost
    \/ SendPostRaises
    \/ SendReturn

Spec == Init /\ [][Next]_vars

---------------------------------------------------------------------------
(* count_messages on its own: every count up to MaxCount, in both modes. *)

Modes == {"gsm7", "utf16"}

CountInit ==
    /\ num_characters \in 0..MaxCount
    /\ mode \in Modes
    /\ counted = FALSE
    /\ segments = None
    /\ RunIdle /\ EncodeIdle /\ FindIdle

CountMessages ==
    /\ ~counted
    /\ segments' = count_messages(num_characters, mode)
    /\ counted' = TRUE
    /\ UNCHANGED <<num_characters, mode>>
    /\ UNCHANGED <<runVars, encodeVars, findVars>>

SpecCount == CountInit /\ [][CountMessages]_vars

---------------------------------------------------------------------------
(* gsm_encode on its own, one loop iteration per step. *)

\* Characters of neither table: U+4E2D, c-cedilla and the tab.
NeitherSample == {Han, 231, 9}

\* Every character of the two tables, and the samples of neither.
AllChars ==
    {GSM7_CHARSET[i] : i \in 1..Len(GSM7_CHARSET)}
    \cup {EXT_CHARSET[i] : i \in 1..Len(EXT_CHARSET)}
    \cup NeitherSample

\* A, ESC, ^, the euro sign, the backtick and U+4E2D.
EncodeSample ==
    {LetterA, GSM7_CHARSET[28], EXT_CHARSET[21], Euro, Backtick, Han}

EncodeInit ==
    /\ plaintext \in {<<c>> : c \in AllChars}
                     \cup SeqsUpTo(EncodeSample, MaxPlainLen)
    /\ pos = 1
    /\ enc = EncStart
    /\ encoded = <<>>
    /\ RunIdle /\ CountIdle /\ FindIdle

\* Lines 50-58: one iteration of the loop.
EncodeChar ==
    /\ encoded = <<>>
    /\ pos <= Len(plaintext)
    /\ enc' = GsmEncodeChar(enc, plaintext[pos])
    /\ pos' = pos + 1
    /\ UNCHANGED <<plaintext, encoded>>
    /\ UNCHANGED <<runVars, countVars, findVars>>

\* Line 59: the return.
EncodeReturn ==
    /\ encoded = <<>>
    /\ pos > Len(plaintext)
    /\ encoded' = <<GsmEncodeResult(enc)>>
    /\ UNCHANGED <<plaintext, pos, enc>>
    /\ UNCHANGED <<runVars, countVars, findVars>>

EncodeNext == EncodeChar \/ EncodeReturn

SpecEncode == EncodeInit /\ [][EncodeNext]_vars

---------------------------------------------------------------------------
(* find_recipient_data on its own: every workbook of header rows. *)

\* Header cells: no value, two spellings of recipient headers, another.
HeaderCells == {PyNone, Str("SMS"), Str("mobile"), Str("Name")}

\* A worksheet of one row (the header) with 1..MaxCols columns.
HeaderSheets == {<<row>> : row \in UNION {[1..k -> HeaderCells] : k \in 1..MaxCols}}

FindWorkbooks == UNION {[1..k -> HeaderSheets] : k \in 1..MaxSheets}

FindInit ==
    /\ workbook \in FindWorkbooks
    /\ searched = FALSE
    /\ found = [result |-> "pending"]
    /\ RunIdle /\ CountIdle /\ EncodeIdle

FindRecipientData ==
    /\ ~searched
    /\ found' = find_recipient_data(workbook)
    /\ searched' = TRUE
    /\ UNCHANGED workbook
    /\ UNCHANGED <<runVars, countVars, encodeVars>>

SpecFind == FindInit /\ [][FindRecipientData]_vars

---------------------------------------------------------------------------
(* Vocabulary of the properties. *)

\* The largest threshold of a mode: the last entry of SMS_SIZES.
LargestThreshold(m) ==
    SMS_SIZES[Len(SMS_SIZES)][IF m = "gsm7" THEN 1 ELSE 2]

\* The printed entries of one kind.
Printed(kind) == {i \in 1..Len(log) : log[i].msg = kind}

\* Delivery attempts made for recipient r: calls of the transport and
\* dry-run placeholders.
PostsTo(r) == {i \in 1..Len(posts) : posts[i] = r}
PlaceholdersTo(r) == {i \in Printed("DRY_RUN") : log[i].to = r}
NoAttempts == posts = <<>> /\ Printed("DRY_RUN") = {}

\* run has ended: it returned, or an exception left it.
Ended == pc \in {"done", "raised"}

\* Validation passed: the message is sendable and clean_phone_numbers
\* returned a non-empty set.
ValidationPassed ==
    message_clean /\ recipients.type = "set" /\ recipients.items # {}

\* The alphabets as the specification describes them.
InPrimary(c) == \E i \in 1..Len(GSM7_CHARSET) : GSM7_CHARSET[i] = c
PrimaryPosition(c) ==
    (CHOOSE i \in 1..Len(GSM7_CHARSET) : GSM7_CHARSET[i] = c) - 1
\* The defined symbols of the extension table: ^ { } \ [ ~ ] | euro.
ExtSymbols == {94, 123, 125, 92, 91, 126, 93, 124, 8364}
ExtPosition(c) ==
    (CHOOSE i \in 1..Len(EXT_CHARSET) : EXT_CHARSET[i] = c) - 1
InNeither(c) == ~InPrimary(c) /\ c \notin ExtSymbols

\* The value of a hexadecimal digit given as ASCII.
HexValue(a) == IF a >= 97 THEN a - 87 ELSE a - 48

---------------------------------------------------------------------------
(* C1 *)

\* C1: a message of more than 765 characters (no segment count in either
\* mode), with or without omitted characters, is reported unsendable by
\* clean_message and gets no delivery attempt, real or dry-run.
C1_TooLongIsUnsendable ==
    (/\ pc # "clean_message"
     /\ message.type = "str"
     /\ Len(message.chars) > LargestThreshold("gsm7"))
    => (message_clean = FALSE /\ NoAttempts)

---------------------------------------------------------------------------
(* C2 *)

\* C2: in dry-run mode, for a message with omitted characters that is
\* sendable in wide-alphabet mode, the SUGGESTION is printed only if the
\* restricted-alphabet segment count is strictly smaller than the
\* wide-alphabet one.
C2_SuggestionOnlyForFewerSegments ==
    (/\ pc # "clean_message"
     /\ dry_run
     /\ message.type = "str"
     /\ count_messages(Len(message.chars), "utf16") # None
     /\ \E i \in 1..Len(message.chars) : ~InPrimary(message.chars[i])
     /\ Printed("SUGGESTION") # {})
    => count_messages(Len(message.chars), "gsm7")[1]
          < count_messages(Len(message.chars), "utf16")[1]

---------------------------------------------------------------------------
(* C3 *)

\* A raw recipient that fails to parse or is not a valid number.
FailsToNormalize(p) ==
    p.type = "str" /\ (ParseRaises(p) \/ ~IsValidNumber(p))

\* C3: when a raw recipient handed to clean_phone_numbers fails to parse
\* or is not valid, every entry is examined, UnableToCleanException is
\* raised (and caught and reported by run), the recipient set is discarded
\* and no delivery attempt is made.
C3_ValidationIsAllOrNothing ==
    (/\ Ended
     /\ \E i \in 1..Len(phone_list) : FailsToNormalize(phone_list[i]))
    => (/\ raised = "none"
        /\ examined = Len(phone_list)
        /\ Printed("RECIPIENTS_NOT_PARSABLE") # {}
        /\ recipients = PyNone
        /\ NoAttempts)

---------------------------------------------------------------------------
(* C4 *)

\* C4: with dry_run set, requests.post is never called; and when the
\* message is sendable and the cleaned recipient set is non-empty, no
\* exception leaves run and run ends with exactly one placeholder notice
\* for each recipient of the set and none for anyone else.
C4_DryRunNeverPosts ==
    dry_run =>
       /\ posts = <<>>
       /\ ValidationPassed =>
             /\ raised = "none"
             /\ pc \in {"dispatch", "send", "done"}
             /\ \A r \in recipients.items : Cardinality(PlaceholdersTo(r)) <= 1
             /\ pc = "done" =>
                   /\ \A r \in recipients.items :
                         Cardinality(PlaceholdersTo(r)) = 1
                   /\ Cardinality(Printed("DRY_RUN"))
                         = Cardinality(recipients.items)

\* A dry run over two distinct recipients has ended with its placeholders.
C4_Witness ==
    /\ dry_run
    /\ pc = "done"
    /\ message_clean
    /\ recipients.type = "set"
    /\ Cardinality(recipients.items) = 2
    /\ Cardinality(Printed("DRY_RUN")) = 2

---------------------------------------------------------------------------
(* C5 *)

\* C5: in live mode, once validation has passed, however a delivery fails,
\* no exception leaves run and run ends with exactly one delivery attempt
\* for every recipient of the cleaned set.
C5_DeliveryFailuresAreIsolated ==
    (Ended /\ ~dry_run /\ ValidationPassed)
    => (/\ raised = "none"
        /\ \A r \in recipients.items : Cardinality(PostsTo(r)) = 1)

---------------------------------------------------------------------------
(* C6 *)

\* C6: no exception propagates out of run, and a run that ends without a
\* delivery attempt ends by reporting that there is nothing to do.
C6_NothingIsFatal ==
    /\ raised = "none"
    /\ (pc = "done" /\ NoAttempts)
          => (log # <<>> /\ log[Len(log)].msg = "NOTHING_TO_DO")

---------------------------------------------------------------------------
(* C7 *)

\* C7: count_messages returns the 1-based index of the first entry of
\* SMS_SIZES whose threshold for the mode is >= the count; it returns None
\* exactly for counts above the largest threshold (765 for gsm7, 335 for
\* utf16); and it is monotonic: a smaller count never needs more segments.
C7_CountMessages ==
    counted =>
       LET col == IF mode = "gsm7" THEN 1 ELSE 2
       IN  /\ LargestThreshold("gsm7") = 765 /\ LargestThreshold("utf16") = 335
           /\ (segments = None) <=> (num_characters > LargestThreshold(mode))
           /\ segments # None =>
                 /\ segments[1] \in 1..Len(SMS_SIZES)
                 /\ SMS_SIZES[segments[1]][col] >= num_characters
                 /\ \A j \in 1..(segments[1] - 1) :
                       SMS_SIZES[j][col] < num_characters
           /\ \A c1 \in 0..(num_characters - 1) :
                 LET s1 == count_messages(c1, mode)
                 IN  /\ segments # None => s1 # None
                     /\ (s1 # None /\ segments # None) => s1[1] <= segments[1]

\* A count equal to a threshold fits it, and the next one does not.
C7_Witness ==
    /\ counted
    /\ mode = "utf16"
    /\ num_characters = 336
    /\ segments = None
    /\ count_messages(335, "utf16") = Some(5)

---------------------------------------------------------------------------
(* C8 *)

\* What one loop iteration does to a character of the primary alphabet
\* and to one of the defined symbols of the extension alphabet.
C8_Step ==
    (pos' = pos + 1) =>
       LET c == plaintext[pos]
       IN  /\ InPrimary(c) =>
                 /\ enc'.chars_omitted = enc.chars_omitted
                 /\ enc'.res = Append(enc.res, PrimaryPosition(c))
                 /\ enc'.ext_lookups = enc.ext_lookups
           /\ (~InPrimary(c) /\ c \in ExtSymbols) =>
                 /\ enc'.chars_omitted = Append(enc.chars_omitted, c)
                 /\ enc'.res = enc.res \o <<27, ExtPosition(c)>>

\* The returned pair: the omitted list, and one byte (two hexadecimal
\* digits) for each code unit, in order.
C8_Output ==
    encoded # <<>> =>
       LET hex == encoded[1][2]
       IN  /\ encoded[1][1] = enc.chars_omitted
           /\ Len(hex) = 2 * Len(enc.res)
           /\ \A k \in 1..Len(enc.res) :
                 16 * HexValue(hex[2 * k - 1]) + HexValue(hex[2 * k])
                    = enc.res[k]

\* C8: in message order, a character of the primary alphabet is not
\* omitted, contributes the one code unit of its position in the primary
\* table and is not looked up in the extension table; a character only in
\* the extension alphabet is omitted and contributes two code units, 27
\* and its position in the extension table.
C8_EncodableCharacters == [][C8_Step]_vars /\ []C8_Output

\* "A" and the euro sign have been encoded as 41 1b 65.
C8_Witness ==
    /\ plaintext = <<LetterA, Euro>>
    /\ encoded # <<>>
    /\ enc.res = <<65, 27, 101>>
    /\ enc.chars_omitted = <<Euro>>
    /\ enc.ext_lookups = <<Euro>>
    /\ encoded[1][2] = <<52, 49, 49, 98, 54, 53>>

---------------------------------------------------------------------------
(* C9 *)

\* C9: a character of neither alphabet (not in the primary table and not
\* one of the defined symbols of the extension table), the fill character
\* of the extension table included, is omitted and contributes no code
\* unit.
C9_UnencodableContributesNothing ==
    [][(pos' = pos + 1 /\ InNeither(plaintext[pos]))
          => (/\ enc'.chars_omitted = Append(enc.chars_omitted, plaintext[pos])
              /\ enc'.res = enc.res)]_vars

---------------------------------------------------------------------------
(* C10 *)

\* The places of the recipient headers of a workbook: (worksheet, column).
HeaderMatches(book) ==
    {sc \in (1..Len(book)) \X (1..MaxCols) :
        /\ sc[2] <= max_column(book[sc[1]])
        /\ book[sc[1]][1][sc[2]].type = "str"
        /\ Lower(book[sc[1]][1][sc[2]].text) \in RecipientHeaders}

\* C10: when some worksheet has a recipient header in row 1, in any
\* column, find_recipient_data returns the first such worksheet and
\* column; RecipientsNotFoundException is raised only when there is none.
C10_FindsTheRecipientColumn ==
    searched =>
       LET m == HeaderMatches(workbook)
       IN  /\ m # {} =>
                 /\ found.result = "return"
                 /\ <<found.sheet, found.column>> \in m
                 /\ \A sc \in m :
                       \/ found.sheet < sc[1]
                       \/ found.sheet = sc[1] /\ found.column <= sc[2]
           /\ found.result = "RecipientsNotFoundException" => m = {}

=============================================================================
